---- MODULE Spec2Model ----
(***************************************************************************)
(* Model of server.js (VideoGrab): the WebSocket download-request handler, *)
(* the two process runners (runYtDlp, runFFmpeg) and the retrieval route   *)
(* GET /download/:filename, over a staging directory.                      *)
(*                                                                         *)
(* Text is modelled character by character: a JavaScript string is the     *)
(* sequence of its characters, so that includes, startsWith, endsWith,     *)
(* replace, trim, substring and the progress regular expression are        *)
(* computed the way the code computes them.                                *)
(*                                                                         *)
(* Percent values are carried in tenths of a percent (PctScale), because   *)
(* parseFloat of the tool's "42.5" is not an integer.                      *)
(*                                                                         *)
(* The external tools are inputs: the chunks they write to their streams,  *)
(* their exit status, and the files they leave in the staging directory,   *)
(* which appear in fs when the run closes (no one can name them earlier:   *)
(* the names carry the job's fresh uuid).  A retriever asks for the names  *)
(* it was given in download-ready messages, or for a name it made up.      *)
(*                                                                         *)
(* A tool that cannot be started is an input too: the child process emits *)
(* 'error', which neither runner listens for, and the process dies.        *)
(*                                                                         *)
(* Spec and SpecJob run one download-request (quota.jobs); SpecJob leaves  *)
(* the retrieval route out.  SpecConn runs two audio download-requests and *)
(* one other inbound message on one connection, the tools writing nothing. *)
(* SpecRetrieval runs the retrieval route alone, asked for any name.       *)
(* SpecClassify runs the classification of the catch block alone, on texts *)
(* drawn from a bounded set.                                               *)
(***************************************************************************)
EXTENDS Integers, Sequences, FiniteSets, TLC

(***************************************************************************)
(* Bounds of the model.                                                    *)
(***************************************************************************)
MaxJobs == 2
MaxChunks == 2
MaxFiles == 2
MaxReqs == 2
MaxSize == 1
MaxPieces == 2

Jobs == 1..MaxJobs
Reqs == 1..MaxReqs
Sizes == 0..MaxSize

(***************************************************************************)
(* JavaScript string operations.                                           *)
(***************************************************************************)
Min(a, b) == IF a <= b THEN a ELSE b

\* s.includes(p)
Includes(s, p) ==
    \E i \in 0..(Len(s) - Len(p)) : SubSeq(s, i + 1, i + Len(p)) = p

\* s.startsWith(p)
StartsWith(s, p) == Len(p) <= Len(s) /\ SubSeq(s, 1, Len(p)) = p

\* s.endsWith(p)
EndsWith(s, p) ==
    Len(p) <= Len(s) /\ SubSeq(s, Len(s) - Len(p) + 1, Len(s)) = p

Whitespace == {" ", "\n", "\t", "\r"}
Digits == {"0", "1", "2", "3", "4", "5", "6", "7", "8", "9"}
LowerChars == {"a", "b", "c", "d", "e", "f", "g", "h", "i", "j", "k", "l", "m",
               "n", "o", "p", "q", "r", "s", "t", "u", "v", "w", "x", "y", "z"}
UpperChars == {"A", "B", "C", "D", "E", "F", "G", "H", "I", "J", "K", "L", "M",
               "N", "O", "P", "Q", "R", "S", "T", "U", "V", "W", "X", "Y", "Z"}
\* the class [a-zA-Z0-9]
AlnumChars == LowerChars \cup UpperChars \cup Digits
\* the class [\\/:*?"<>|]
HostileChars == {"\\", "/", ":", "*", "?", "\"", "<", ">", "|"}

\* s.replace(/[class]/g, '')
RemoveChars(s, class) == SelectSeq(s, LAMBDA c : c \notin class)

\* s.replace(/[^class]/g, '')
KeepChars(s, class) == SelectSeq(s, LAMBDA c : c \in class)

\* s.substring(0, n)
Substring0(s, n) == SubSeq(s, 1, Min(Len(s), n))

\* the first position k >= i with s[k] outside class, Len(s) + 1 when none
FirstNotIn(s, i, class) ==
    CHOOSE k \in i..(Len(s) + 1) :
        /\ k = Len(s) + 1 \/ s[k] \notin class
        /\ \A m \in i..(k - 1) : s[m] \in class

\* s.trim()
Trim(s) ==
    LET a == FirstNotIn(s, 1, Whitespace)
        b == CHOOSE k \in 0..Len(s) :
                 /\ k = 0 \/ s[k] \notin Whitespace
                 /\ \A m \in (k + 1)..Len(s) : s[m] \in Whitespace
    IN  IF a > Len(s) THEN <<>> ELSE SubSeq(s, a, b)

DigitVal(c) ==
    CASE c = "0" -> 0 [] c = "1" -> 1 [] c = "2" -> 2 [] c = "3" -> 3
      [] c = "4" -> 4 [] c = "5" -> 5 [] c = "6" -> 6 [] c = "7" -> 7
      [] c = "8" -> 8 [] c = "9" -> 9

RECURSIVE DecimalValue(_)
DecimalValue(ds) ==
    IF ds = <<>> THEN 0
    ELSE 10 * DecimalValue(SubSeq(ds, 1, Len(ds) - 1)) + DigitVal(ds[Len(ds)])

\* one percent, in the unit percent values are carried in
PctScale == 10
Pct(n) == n * PctScale

\* parseFloat of "<whole>.<frac>", in tenths (further digits are cut)
ParseFloat(whole, frac) == DecimalValue(whole) * PctScale + DigitVal(frac[1])

DownloadTag == <<"[","d","o","w","n","l","o","a","d","]">>
PercentOf == <<"%"," ","o","f">>

\* /\[download\]\s+(\d+\.\d+)% of/ matched at position i of s
ProgressMatchAt(s, i) ==
    LET a == i + Len(DownloadTag)
        b == FirstNotIn(s, Min(a, Len(s) + 1), Whitespace)
        c == FirstNotIn(s, b, Digits)
        d == FirstNotIn(s, Min(c + 1, Len(s) + 1), Digits)
    IN  /\ a <= Len(s)
        /\ SubSeq(s, i, a - 1) = DownloadTag
        /\ b > a
        /\ c > b
        /\ c <= Len(s)
        /\ s[c] = "."
        /\ d > c + 1
        /\ d + Len(PercentOf) - 1 <= Len(s)
        /\ SubSeq(s, d, d + Len(PercentOf) - 1) = PercentOf

\* outputString.match(...): the positions where the expression matches
ProgressMatches(s) == {i \in 1..Len(s) : ProgressMatchAt(s, i)}

\* match[1] of the first match, through parseFloat
ProgressPercent(s) ==
    LET i == CHOOSE k \in ProgressMatches(s) :
                 \A m \in ProgressMatches(s) : k <= m
        b == FirstNotIn(s, i + Len(DownloadTag), Whitespace)
        c == FirstNotIn(s, b, Digits)
        d == FirstNotIn(s, c + 1, Digits)
    IN  ParseFloat(SubSeq(s, b, c - 1), SubSeq(s, c + 1, d - 1))

(***************************************************************************)
(* path: join, basename (POSIX).                                           *)
(***************************************************************************)
\* the first position of character ch in s, Len(s) + 1 when absent
IndexOf(s, ch) ==
    CHOOSE k \in 1..(Len(s) + 1) :
        /\ k = Len(s) + 1 \/ s[k] = ch
        /\ \A m \in 1..(k - 1) : s[m] # ch

\* the segments of p between "/" characters
RECURSIVE Segments(_)
Segments(p) ==
    LET k == IndexOf(p, "/")
    IN  IF k > Len(p) THEN <<p>>
        ELSE <<SubSeq(p, 1, k - 1)>> \o Segments(SubSeq(p, k + 1, Len(p)))

\* path.normalize of an absolute path, as the segments that remain
RECURSIVE Resolve(_, _)
Resolve(segs, done) ==
    IF segs = <<>> THEN done
    ELSE LET h == segs[1]
             t == Tail(segs)
         IN  IF h = <<>> \/ h = <<".">> THEN Resolve(t, done)
             ELSE IF h = <<".",".">>
                  THEN Resolve(t, IF done = <<>> THEN <<>>
                                  ELSE SubSeq(done, 1, Len(done) - 1))
                  ELSE Resolve(t, Append(done, h))

RECURSIVE Unsplit(_)
Unsplit(segs) ==
    IF segs = <<>> THEN <<>> ELSE <<"/">> \o segs[1] \o Unsplit(Tail(segs))

\* path.join(a, b) for an absolute a
PathJoin(a, b) ==
    LET r == Resolve(Segments(a \o <<"/">> \o b), <<>>)
    IN  IF r = <<>> THEN <<"/">> ELSE Unsplit(r)

\* path.basename(p)
Basename(p) == LET segs == Segments(p) IN segs[Len(segs)]

\* __dirname, the directory server.js lives in
Dirname == <<"/","s","r","v">>
DOWNLOADS_DIR == PathJoin(Dirname, <<"d","o","w","n","l","o","a","d","s">>)

\* p lies strictly inside directory dir
InsideDir(p, dir) == StartsWith(p, dir \o <<"/">>) /\ Len(p) > Len(dir) + 1

(***************************************************************************)
(* Texts of the program.                                                   *)
(***************************************************************************)
ErrorMarker == <<"E","R","R","O","R",":">>
SizeMarker == <<"s","i","z","e","=">>
YtDlpFailedText == <<"V","i","d","e","o"," ","p","r","o","c","e","s","s","i","n","g"," ","c","o","m","m","a","n","d"," ","f","a","i","l","e","d">>
FfmpegFailedText == <<"V","i","d","e","o"," ","c","o","n","v","e","r","s","i","o","n"," ","f","a","i","l","e","d">>
NotFoundText == <<"D","o","w","n","l","o","a","d","e","d"," ","f","i","l","e"," ","n","o","t"," ","f","o","u","n","d">>
UnsupportedText == <<"U","n","s","u","p","p","o","r","t","e","d"," ","f","o","r","m","a","t",":"," ">>
EmptyText == <<"D","o","w","n","l","o","a","d","e","d"," ","f","i","l","e"," ","i","s"," ","e","m","p","t","y">>
PlaceholderTitle == <<"v","i","d","e","o">>

FetchingText == <<"F","e","t","c","h","i","n","g"," ","v","i","d","e","o"," ","i","n","f","o","r","m","a","t","i","o","n",".",".",".">>
ProcessingText == <<"P","r","o","c","e","s","s","i","n","g",":"," ">>
DownloadingAudioText == <<"D","o","w","n","l","o","a","d","i","n","g"," ","a","u","d","i","o",".",".",".">>
DownloadingVideoText == <<"D","o","w","n","l","o","a","d","i","n","g"," ","v","i","d","e","o",".",".",".">>
ConvertingText == <<"C","o","n","v","e","r","t","i","n","g"," ","f","i","l","e",".",".",".">>

GenericRetryMessage == <<"F","a","i","l","e","d"," ","t","o"," ","d","o","w","n","l","o","a","d"," ","v","i","d","e","o","."," ","P","l","e","a","s","e"," ","c","h","e","c","k"," ","t","h","e"," ","U","R","L"," ","a","n","d"," ","t","r","y"," ","a","g","a","i","n",".">>
NotAvailableMessage == <<"V","i","d","e","o"," ","f","o","r","m","a","t"," ","n","o","t"," ","a","v","a","i","l","a","b","l","e","."," ","T","r","y"," ","a"," ","d","i","f","f","e","r","e","n","t"," ","q","u","a","l","i","t","y"," ","s","e","t","t","i","n","g",".">>
AccessRestrictedMessage == <<"V","i","d","e","o"," ","i","s"," ","p","r","i","v","a","t","e"," ","o","r"," ","r","e","q","u","i","r","e","s"," ","l","o","g","i","n","."," ","P","l","e","a","s","e"," ","c","h","e","c","k"," ","i","f"," ","t","h","e"," ","v","i","d","e","o"," ","i","s"," ","p","u","b","l","i","c","l","y"," ","a","c","c","e","s","s","i","b","l","e",".">>
RegionRestrictedMessage == <<"V","i","d","e","o"," ","n","o","t"," ","a","v","a","i","l","a","b","l","e"," ","i","n"," ","y","o","u","r"," ","r","e","g","i","o","n"," ","d","u","e"," ","t","o"," ","g","e","o","g","r","a","p","h","i","c"," ","r","e","s","t","r","i","c","t","i","o","n","s",".">>
RightsRestrictedMessage == <<"V","i","d","e","o"," ","u","n","a","v","a","i","l","a","b","l","e"," ","d","u","e"," ","t","o"," ","c","o","p","y","r","i","g","h","t"," ","r","e","s","t","r","i","c","t","i","o","n","s",".">>
InternalErrorMessage == <<"A","n"," ","i","n","t","e","r","n","a","l"," ","s","e","r","v","e","r"," ","e","r","r","o","r"," ","o","c","c","u","r","r","e","d",".">>

FixedMessages ==
    {GenericRetryMessage, NotAvailableMessage, AccessRestrictedMessage,
     RegionRestrictedMessage, RightsRestrictedMessage, InternalErrorMessage}

MP3 == <<"m","p","3">>
M4A == <<"m","4","a">>
MP4 == <<"m","p","4">>
WEBM == <<"w","e","b","m">>
AudioFormats == {MP3, M4A}
VideoFormats == {MP4, WEBM}
Auto == <<"a","u","t","o">>

\* the message of the error fs.stat / fs.unlink throw for a missing path
Enoent(syscall, p) ==
    <<"E","N","O","E","N","T",":"," ","n","o"," ","s","u","c","h"," ","f","i","l","e"," ","o","r"," ","d","i","r","e","c","t","o","r","y",","," ">> \o syscall \o <<" ","'">> \o p \o <<"'">>

(***************************************************************************)
(* The inputs the model draws from.                                        *)
(***************************************************************************)
Urls == {<<"v",".","i","o","/","a">>}
Formats == {MP3, M4A, MP4, WEBM, <<"a","v","i">>}
Qualities == {Auto, <<"7","2","0","p">>}
\* every format, and both kinds of quality selector
Payloads ==
    {p \in [url : Urls, format : Formats, quality : Qualities] :
        p.quality = Auto <=> p.format # WEBM}

TitleChunk == <<"M","y",":"," ","V","i","d","e","o","\n">>
PercentChunk == <<"[","d","o","w","n","l","o","a","d","]"," "," ","4","2",".","5","%"," ","o","f"," ","9","M","i","B">>
ErrPrivateVideo == <<"E","R","R","O","R",":"," ","P","r","i","v","a","t","e"," ","v","i","d","e","o">>
PlainPrivateChunk == <<"v","i","d","e","o"," ","i","s"," ","p","r","i","v","a","t","e","\n">>
SizeChunk == <<"s","i","z","e","="," "," ","1","k","B">>
PlainFfmpegChunk == <<"C","o","n","v","e","r","s","i","o","n"," ","f","a","i","l","e","d","!">>

\* what the tools may write to their streams, one chunk at a time
StdoutChunks == {TitleChunk, PercentChunk}
StderrChunks == {ErrPrivateVideo, PlainPrivateChunk}
FfmpegStderrChunks == {SizeChunk, PlainFfmpegChunk}
ExitCodes == {0, 1}

\* the extensions the extraction tool may give the files it writes
ToolExts(format) == {format, <<"m","k","v">>}

(***************************************************************************)
(* State.                                                                  *)
(***************************************************************************)
Conns == {1}

VARIABLES
    readyState,   \* ws.readyState of each connection
    sent,         \* per connection, the messages ws.send was given, in order
    pc,           \* per job, the await the handler is suspended at; "crashed"
                  \* once the process has died under it
    ctx,          \* per job, the locals of the handler invocation
    proc,         \* per job, the child process of the running runner call
    spawned,      \* per job, the commands spawn was called with, in order
    fs,           \* the files that exist: records [path, size]
    http,         \* per retrieval request, its position and response
    quota,        \* what the environment may still do: jobs, chunks, requests,
                  \* other inbound messages
    text,         \* the diagnostic text handed to the classification alone
    category      \* the message the classification gave for text

cls == <<text, category>>
vars == <<readyState, sent, pc, ctx, proc, spawned, fs, http, quota, cls>>

NoProc == [cmd |-> "none", args |-> <<>>, output |-> <<>>, error |-> <<>>]
NoCtx == [conn |-> 0, url |-> <<>>, format |-> <<>>, quality |-> <<>>,
          finalFilename |-> <<>>, prefix |-> <<>>, downloadedFile |-> <<>>,
          finalPath |-> <<>>, error |-> <<>>]
NoHttp == [pc |-> "idle", filename |-> <<>>, status |-> 0]

ServerSource == PathJoin(Dirname, <<"s","e","r","v","e","r",".","j","s">>)

\* the server after construction: no connection, no job, no request
InitState ==
    /\ readyState = [c \in Conns |-> "NONE"]
    /\ sent = [c \in Conns |-> <<>>]
    /\ pc = [j \in Jobs |-> "idle"]
    /\ ctx = [j \in Jobs |-> NoCtx]
    /\ proc = [j \in Jobs |-> NoProc]
    /\ spawned = [j \in Jobs |-> <<>>]
    /\ fs = {[path |-> ServerSource, size |-> 1]}
    /\ http = [r \in Reqs |-> NoHttp]

\* one download-request, with the tools writing up to MaxChunks chunks
InitServer ==
    /\ InitState
    /\ quota = [jobs |-> 1, chunks |-> MaxChunks, reqs |-> MaxReqs, msgs |-> 0]

Init ==
    /\ InitServer
    /\ text = <<>>
    /\ category = <<>>

(***************************************************************************)
(* fs                                                                      *)
(***************************************************************************)
Exists(files, p) == \E f \in files : f.path = p
SizeOf(files, p) == (CHOOSE f \in files : f.path = p).size
Unlinked(files, p) == {f \in files : f.path # p}

\* fs.readdir(DOWNLOADS_DIR): the names of the entries of the directory
Readdir(files) ==
    LET skip == Len(DOWNLOADS_DIR) + 1
        Name(p) == SubSeq(p, skip + 1, Len(p))
    IN  {Name(f.path) : f \in {g \in files :
            /\ InsideDir(g.path, DOWNLOADS_DIR)
            /\ IndexOf(Name(g.path), "/") > Len(Name(g.path))}}

(***************************************************************************)
(* Messages to the peer.                                                   *)
(***************************************************************************)
StatusMsg(message, percent) ==
    [type |-> "status", message |-> message, percent |-> percent]
ProgressMsg(percent) == [type |-> "progress", percent |-> percent]
ErrorMsg(message) == [type |-> "error", message |-> message]
ReadyMsg(filename, size, url) ==
    [type |-> "download-ready", filename |-> filename, size |-> size, url |-> url]

\* sendProgress dropping an update equal to the message sent last
SendProgressCoalescing(c, j, updates) ==
    IF readyState[c] = "OPEN"
    THEN IF /\ Len(sent[c]) > 0
            /\ Len(updates) = 1
            /\ sent[c][Len(sent[c])].msg = updates[1]
         THEN sent
         ELSE [sent EXCEPT ![c] = @ \o [i \in 1..Len(updates) |->
                                           [job |-> j, msg |-> updates[i]]]]
    ELSE sent

\* sendProgress, for the updates of job j on connection c, in order
SendProgress(c, j, updates) ==
    IF readyState[c] = "OPEN"
    THEN [sent EXCEPT ![c] = @ \o [i \in 1..Len(updates) |->
                                      [job |-> j, msg |-> updates[i]]]]
    ELSE sent

\* the catch block with the tests for "private"/"login" and for "format is
\* not available" in the other order
ClassifyErrorAccessFirst(message) ==
    IF Includes(message, <<"p","r","i","v","a","t","e">>) \/ Includes(message, <<"l","o","g","i","n">>)
    THEN AccessRestrictedMessage
    ELSE IF Includes(message, <<"f","o","r","m","a","t"," ","i","s"," ","n","o","t"," ","a","v","a","i","l","a","b","l","e">>) THEN NotAvailableMessage
    ELSE IF Includes(message, <<"g","e","o">>) THEN RegionRestrictedMessage
    ELSE IF Includes(message, <<"c","o","p","y","r","i","g","h","t">>) THEN RightsRestrictedMessage
    ELSE GenericRetryMessage

\* the catch block of the job: the message of the terminal error event
ClassifyError(message) ==
    IF Includes(message, <<"f","o","r","m","a","t"," ","i","s"," ","n","o","t"," ","a","v","a","i","l","a","b","l","e">>) THEN NotAvailableMessage
    ELSE IF Includes(message, <<"p","r","i","v","a","t","e">>) \/ Includes(message, <<"l","o","g","i","n">>)
         THEN AccessRestrictedMessage
    ELSE IF Includes(message, <<"g","e","o">>) THEN RegionRestrictedMessage
    ELSE IF Includes(message, <<"c","o","p","y","r","i","g","h","t">>) THEN RightsRestrictedMessage
    ELSE GenericRetryMessage

\* a throw inside the inner try: the catch block runs, the handler returns.
\* before are the updates the handler sent in the same step, ahead of the throw
\* c is the context the handler had built when it threw
Failed(j, c, before, message) ==
    /\ ctx' = [ctx EXCEPT ![j] = [c EXCEPT !.error = message]]
    /\ sent' = SendProgress(c.conn, j,
                            before \o <<ErrorMsg(ClassifyError(message))>>)
    /\ pc' = [pc EXCEPT ![j] = "failed"]
    /\ proc' = [proc EXCEPT ![j] = NoProc]

(***************************************************************************)
(* The connections.                                                        *)
(***************************************************************************)
\* the process is running: no uncaught exception has ended it
Serving == \A j \in Jobs : pc[j] # "crashed"

\* wss.on('connection'): a peer connects
Connect(c) ==
    /\ Serving
    /\ readyState[c] = "NONE"
    /\ readyState' = [readyState EXCEPT ![c] = "OPEN"]
    /\ UNCHANGED <<sent, pc, ctx, proc, spawned, fs, http, quota, cls>>

\* the peer disconnects
Disconnect(c) ==
    /\ readyState[c] = "OPEN"
    /\ readyState' = [readyState EXCEPT ![c] = "CLOSED"]
    /\ UNCHANGED <<sent, pc, ctx, proc, spawned, fs, http, quota, cls>>

(***************************************************************************)
(* The process runners.                                                    *)
(***************************************************************************)
\* spawn(cmd, args) inside runYtDlp / runFFmpeg
Spawned(j, cmd, args) ==
    /\ proc' = [proc EXCEPT ![j] = [cmd |-> cmd, args |-> args,
                                    output |-> <<>>, error |-> <<>>]]
    /\ spawned' = [spawned EXCEPT ![j] = Append(@, cmd)]

\* the child process could not be started: it emits 'error', and neither
\* runner listens for it, so the event is thrown as an uncaught exception and
\* the process exits: every handler in flight dies where it is, every socket
\* closes, every response under way is cut
SpawnError(j) ==
    /\ proc[j].cmd # "none"
    /\ proc[j].output = <<>>
    /\ proc[j].error = <<>>
    /\ pc' = [k \in Jobs |-> IF pc[k] \in {"idle", "ready", "failed"} /\ k # j
                              THEN pc[k] ELSE "crashed"]
    /\ proc' = [k \in Jobs |-> NoProc]
    /\ readyState' = [c \in Conns |-> IF readyState[c] = "OPEN" THEN "CLOSED"
                                       ELSE readyState[c]]
    /\ http' = [r \in Reqs |-> IF http[r].pc \in {"idle", "done"} THEN http[r]
                                ELSE [http[r] EXCEPT !.pc = "aborted"]]
    /\ UNCHANGED <<sent, ctx, spawned, fs, quota, cls>>

\* runYtDlp: process.stdout.on('data')
YtDlpStdout(j, chunk) ==
    /\ proc[j].cmd = "yt-dlp"
    /\ quota.chunks > 0
    /\ quota' = [quota EXCEPT !.chunks = @ - 1]
    /\ proc' = [proc EXCEPT ![j].output = @ \o chunk]
    /\ sent' = IF ProgressMatches(chunk) # {}
               THEN SendProgress(ctx[j].conn, j,
                                 <<ProgressMsg(ProgressPercent(chunk))>>)
               ELSE sent
    /\ UNCHANGED <<readyState, pc, ctx, spawned, fs, http, cls>>

\* runYtDlp: process.stderr.on('data')
YtDlpStderr(j, chunk) ==
    /\ proc[j].cmd = "yt-dlp"
    /\ quota.chunks > 0
    /\ quota' = [quota EXCEPT !.chunks = @ - 1]
    /\ proc' = [proc EXCEPT ![j].error = @ \o chunk]
    /\ sent' = IF Includes(chunk, ErrorMarker)
               THEN SendProgress(ctx[j].conn, j, <<ErrorMsg(chunk)>>)
               ELSE sent
    /\ UNCHANGED <<readyState, pc, ctx, spawned, fs, http, cls>>

\* runFFmpeg: process.stderr.on('data')
FfmpegStderr(j, chunk) ==
    /\ proc[j].cmd = "ffmpeg"
    /\ quota.chunks > 0
    /\ quota' = [quota EXCEPT !.chunks = @ - 1]
    /\ proc' = [proc EXCEPT ![j].error = @ \o chunk]
    /\ sent' = IF Includes(chunk, SizeMarker)
               THEN SendProgress(ctx[j].conn, j, <<ProgressMsg(Pct(90))>>)
               ELSE sent
    /\ UNCHANGED <<readyState, pc, ctx, spawned, fs, http, cls>>

\* the sets of files a tool run may leave behind, among the paths it may
\* write: at most MaxFiles files, each of a size in Sizes
Leavings(paths) ==
    {{[path |-> p, size |-> f[p]] : p \in DOMAIN f} :
        f \in UNION {[S -> Sizes] : S \in {T \in SUBSET paths :
                                              Cardinality(T) <= MaxFiles}}}

\* the paths the extraction tool may write: %(ext)s of its output template
\* filled in
DownloadTargets(prefix, format) ==
    {PathJoin(DOWNLOADS_DIR, prefix \o <<".">> \o ext) : ext \in ToolExts(format)}

\* the rejection carrying the fixed text whatever was written to stderr
YtDlpFailureFixedText(error) == YtDlpFailedText

\* the message the rejected promise of runYtDlp carries
YtDlpFailure(error) == IF error = <<>> THEN YtDlpFailedText ELSE error

\* the message the rejected promise of runFFmpeg carries
FfmpegFailure(error) == IF error = <<>> THEN FfmpegFailedText ELSE error

(***************************************************************************)
(* The download-request handler, one action per await.                     *)
(***************************************************************************)
DigitChar(n) == <<"0", "1", "2", "3", "4", "5", "6", "7", "8", "9">>[n + 1]

\* uuidv4(): a token no other job has
Uuid(j) == <<"i","d">> \o <<DigitChar(j)>>

\* s.replace(ch, '') with a string pattern: the first occurrence only
ReplaceFirst(s, ch) ==
    LET k == IndexOf(s, ch)
    IN  IF k > Len(s) THEN s
        ELSE SubSeq(s, 1, k - 1) \o SubSeq(s, k + 1, Len(s))

IsAudio(format) == format \in AudioFormats
IsVideo(format) == format \in VideoFormats

\* `${fileId}_${sanitizedUrl}.%(ext)s` under DOWNLOADS_DIR
OutputTemplate(prefix) == PathJoin(DOWNLOADS_DIR, prefix \o <<".","%","(","e","x","t",")","s">>)

AudioArgs(url, format, prefix) ==
    <<<<"-","-","e","x","t","r","a","c","t","-","a","u","d","i","o">>, <<"-","-","a","u","d","i","o","-","f","o","r","m","a","t">>, format, <<"-","-","a","u","d","i","o","-","q","u","a","l","i","t","y">>,
      <<"0">>, <<"-","-","o","u","t","p","u","t">>, OutputTemplate(prefix), <<"-","-","n","o","-","p","l","a","y","l","i","s","t">>,
      <<"-","-","e","m","b","e","d","-","t","h","u","m","b","n","a","i","l">>, url>>

FormatSelector(format, quality) ==
    IF quality = Auto
    THEN <<"b","e","s","t","v","i","d","e","o","[","e","x","t","=">> \o format \o <<"]","+","b","e","s","t","a","u","d","i","o","/","b","e","s","t">>
    ELSE LET height == ReplaceFirst(quality, "p")
         IN  <<"b","e","s","t","v","i","d","e","o","[","h","e","i","g","h","t","<","=">> \o height \o <<"]","[","e","x","t","=">> \o format
             \o <<"]","+","b","e","s","t","a","u","d","i","o","[","e","x","t","=","m","4","a","]","/","b","e","s","t","[","h","e","i","g","h","t","<","=">> \o height
             \o <<"]","[","e","x","t","=">> \o format \o <<"]">>

VideoArgs(url, format, quality, prefix) ==
    <<<<"-","-","f","o","r","m","a","t">>, FormatSelector(format, quality), <<"-","-","o","u","t","p","u","t">>,
      OutputTemplate(prefix), <<"-","-","n","o","-","p","l","a","y","l","i","s","t">>, <<"-","-","m","e","r","g","e","-","o","u","t","p","u","t","-","f","o","r","m","a","t">>,
      format, <<"-","-","e","m","b","e","d","-","s","u","b","s">>, <<"-","-","w","r","i","t","e","-","a","u","t","o","-","s","u","b","s">>, <<"-","-","s","u","b","-","l","a","n","g">>,
      <<"e","n">>, url>>

\* ws.on('message') with a download-request: up to await ensureDownloadsDir()
DownloadRequest(j, c, payload) ==
    /\ pc[j] = "idle"
    /\ \A k \in Jobs : k < j => pc[k] # "idle"
    /\ readyState[c] = "OPEN"
    /\ quota.jobs > 0
    /\ quota' = [quota EXCEPT !.jobs = @ - 1]
    /\ ctx' = [ctx EXCEPT ![j] = [NoCtx EXCEPT !.conn = c,
                                               !.url = payload.url,
                                               !.format = payload.format,
                                               !.quality = payload.quality]]
    /\ sent' = SendProgress(c, j, <<StatusMsg(FetchingText, Pct(5))>>)
    /\ pc' = [pc EXCEPT ![j] = "ensureDir"]
    /\ UNCHANGED <<readyState, proc, spawned, fs, http, cls>>

\* an inbound message that starts no job: text that JSON.parse rejects
\* (valid = FALSE), the text "null" (valid, but no object), or an object with
\* or without a type and a payload (type is "" and payload the empty set when
\* the object has none)
OtherMessages ==
    {[valid |-> FALSE, object |-> FALSE, type |-> "", payload |-> {}],
     [valid |-> TRUE, object |-> FALSE, type |-> "", payload |-> {}],
     [valid |-> TRUE, object |-> TRUE, type |-> "", payload |-> {}],
     [valid |-> TRUE, object |-> TRUE, type |-> "download-request", payload |-> {}]}
    \cup {[valid |-> TRUE, object |-> TRUE, type |-> "ping", payload |-> P] :
              P \in {{}} \cup {{p} : p \in Payloads}}

\* every inbound message gets past the parse and the destructuring
ThrowsNever(message) == FALSE

\* JSON.parse(message) throws, or destructuring its result throws because it
\* is null, or destructuring the payload of a download-request throws because
\* there is none
Throws(message) ==
    \/ ~message.valid
    \/ ~message.object
    \/ message.type = "download-request" /\ message.payload = {}

\* ws.on('message') with a message that starts no job: the outer catch when
\* the parse or the destructuring throws, nothing for another type
Message(c, message) ==
    /\ Serving
    /\ readyState[c] = "OPEN"
    /\ quota.msgs > 0
    /\ quota' = [quota EXCEPT !.msgs = @ - 1]
    /\ sent' = IF Throws(message)
               THEN SendProgress(c, 0, <<ErrorMsg(InternalErrorMessage)>>)
               ELSE sent
    /\ UNCHANGED <<readyState, pc, ctx, proc, spawned, fs, http, cls>>

\* ensureDownloadsDir() returns; runYtDlp(['--get-title', url]) starts
EnsureDirDone(j) ==
    /\ pc[j] = "ensureDir"
    /\ Spawned(j, "yt-dlp", <<<<"-","-","g","e","t","-","t","i","t","l","e">>, ctx[j].url>>)
    /\ pc' = [pc EXCEPT ![j] = "title"]
    /\ UNCHANGED <<readyState, sent, ctx, fs, http, quota, cls>>

\* the title run closes: on status 0 the handler runs on to the download run
TitleClose(j, code) ==
    /\ pc[j] = "title"
    /\ IF code # 0
       THEN /\ Failed(j, ctx[j], <<>>, YtDlpFailure(proc[j].error))
            /\ UNCHANGED spawned
       ELSE LET videoTitle == Trim(proc[j].output)
                stripped == Trim(RemoveChars(videoTitle, HostileChars))
                sanitizedTitle == IF stripped = <<>> THEN PlaceholderTitle
                                  ELSE stripped
                processing == StatusMsg(ProcessingText \o videoTitle, Pct(10))
                fileId == Uuid(j)
                sanitizedUrl == Substring0(KeepChars(ctx[j].url, AlnumChars), 10)
                format == ctx[j].format
                prefix == fileId \o <<"_">> \o sanitizedUrl
                c == [ctx[j] EXCEPT
                         !.finalFilename = sanitizedTitle \o <<".">> \o format,
                         !.prefix = prefix]
            IN  IF IsAudio(format)
                THEN /\ ctx' = [ctx EXCEPT ![j] = c]
                     /\ sent' = SendProgress(ctx[j].conn, j,
                            <<processing, StatusMsg(DownloadingAudioText, Pct(20))>>)
                     /\ Spawned(j, "yt-dlp", AudioArgs(ctx[j].url, format, prefix))
                     /\ pc' = [pc EXCEPT ![j] = "download"]
                ELSE IF IsVideo(format)
                THEN /\ ctx' = [ctx EXCEPT ![j] = c]
                     /\ sent' = SendProgress(ctx[j].conn, j,
                            <<processing, StatusMsg(DownloadingVideoText, Pct(20))>>)
                     /\ Spawned(j, "yt-dlp",
                                VideoArgs(ctx[j].url, format, ctx[j].quality, prefix))
                     /\ pc' = [pc EXCEPT ![j] = "download"]
                ELSE /\ Failed(j, c, <<processing>>, UnsupportedText \o format)
                     /\ UNCHANGED spawned
    /\ UNCHANGED <<readyState, fs, http, quota, cls>>

\* the directory is listed after every download, audio included
AfterDownloadAlwaysLocate(format) == "readdir"

\* where the handler goes once the download run has succeeded: the audio
\* branch goes on to fs.stat, the video branch lists the directory first
AfterDownload(format) == IF IsAudio(format) THEN "stat" ELSE "readdir"

\* the download run closes, having left files in the staging directory
DownloadClose(j, code, files) ==
    /\ pc[j] = "download"
    /\ fs' = fs \cup files
    /\ IF code # 0
       THEN Failed(j, ctx[j], <<>>, YtDlpFailure(proc[j].error))
       ELSE /\ ctx' = IF IsAudio(ctx[j].format)
                      THEN [ctx EXCEPT ![j].finalPath =
                               PathJoin(DOWNLOADS_DIR,
                                        ctx[j].prefix \o <<".">> \o ctx[j].format)]
                      ELSE ctx
            /\ pc' = [pc EXCEPT ![j] = AfterDownload(ctx[j].format)]
            /\ proc' = [proc EXCEPT ![j] = NoProc]
            /\ UNCHANGED sent
    /\ UNCHANGED <<readyState, spawned, http, quota, cls>>

\* the entries files.find may return: readdir's order is the file system's
Located(files, prefix) == {f \in Readdir(files) : StartsWith(f, prefix)}

\* the located file needs the transcoding tool
NeedsConversion(downloadedFile, format) ==
    ~EndsWith(downloadedFile, <<".">> \o format)

ConvertedPath(prefix, format) ==
    PathJoin(DOWNLOADS_DIR, prefix \o <<"_","c","o","n","v","e","r","t","e","d",".">> \o format)

\* fs.readdir returns: locate the file, start the transcoding tool if needed
ReaddirDone(j) ==
    /\ pc[j] = "readdir"
    /\ IF Located(fs, ctx[j].prefix) = {}
       THEN /\ Failed(j, ctx[j], <<>>, NotFoundText)
            /\ UNCHANGED spawned
       ELSE \E downloadedFile \in Located(fs, ctx[j].prefix) :
              LET finalPath == PathJoin(DOWNLOADS_DIR, downloadedFile)
                  c == [ctx[j] EXCEPT !.downloadedFile = downloadedFile,
                                      !.finalPath = finalPath]
              IN  /\ ctx' = [ctx EXCEPT ![j] = c]
                  /\ IF NeedsConversion(downloadedFile, ctx[j].format)
                     THEN /\ sent' = SendProgress(ctx[j].conn, j,
                                 <<StatusMsg(ConvertingText, Pct(80))>>)
                          /\ Spawned(j, "ffmpeg",
                                 <<<<"-","i">>, finalPath, <<"-","c">>, <<"c","o","p","y">>,
                                   ConvertedPath(ctx[j].prefix, ctx[j].format)>>)
                          /\ pc' = [pc EXCEPT ![j] = "convert"]
                     ELSE /\ pc' = [pc EXCEPT ![j] = "stat"]
                          /\ UNCHANGED <<sent, proc, spawned>>
    /\ UNCHANGED <<readyState, fs, http, quota, cls>>

\* the transcoding run closes, having left its output file or not
FfmpegClose(j, code, files) ==
    /\ pc[j] = "convert"
    /\ fs' = fs \cup files
    /\ IF code # 0
       THEN Failed(j, ctx[j], <<>>, FfmpegFailure(proc[j].error))
       ELSE /\ pc' = [pc EXCEPT ![j] = "unlink"]
            /\ proc' = [proc EXCEPT ![j] = NoProc]
            /\ UNCHANGED <<sent, ctx>>
    /\ UNCHANGED <<readyState, spawned, http, quota, cls>>

\* fs.unlink(finalPath) of the pre-conversion file returns
UnlinkDone(j) ==
    /\ pc[j] = "unlink"
    /\ IF Exists(fs, ctx[j].finalPath)
       THEN /\ fs' = Unlinked(fs, ctx[j].finalPath)
            /\ ctx' = [ctx EXCEPT ![j].finalPath =
                          ConvertedPath(ctx[j].prefix, ctx[j].format)]
            /\ pc' = [pc EXCEPT ![j] = "stat"]
            /\ UNCHANGED <<sent, proc>>
       ELSE /\ Failed(j, ctx[j], <<>>, Enoent(<<"u","n","l","i","n","k">>, ctx[j].finalPath))
            /\ UNCHANGED fs
    /\ UNCHANGED <<readyState, spawned, http, quota, cls>>

\* the size field of download-ready for a stat result
ReportedSize(size) == size

\* the size check left out
IsEmptyNever(size) == FALSE

\* stats.size === 0
IsEmpty(size) == size = 0

\* fs.stat(finalPath) returns: validate, then download-ready
StatDone(j) ==
    /\ pc[j] = "stat"
    /\ IF ~Exists(fs, ctx[j].finalPath)
       THEN Failed(j, ctx[j], <<>>, Enoent(<<"s","t","a","t">>, ctx[j].finalPath))
       ELSE LET size == SizeOf(fs, ctx[j].finalPath)
            IN  IF IsEmpty(size)
                THEN Failed(j, ctx[j], <<>>, EmptyText)
                ELSE /\ sent' = SendProgress(ctx[j].conn, j,
                            <<ReadyMsg(ctx[j].finalFilename, ReportedSize(size),
                                       <<"/","d","o","w","n","l","o","a","d","/">> \o Basename(ctx[j].finalPath))>>)
                     /\ pc' = [pc EXCEPT ![j] = "ready"]
                     /\ UNCHANGED <<proc, ctx>>
    /\ UNCHANGED <<readyState, spawned, fs, http, quota, cls>>

(***************************************************************************)
(* GET /download/:filename, one action per callback.                       *)
(***************************************************************************)
\* the url fields of the download-ready messages the peers were sent
ReadyUrls ==
    UNION {{sent[c][i].msg.url : i \in {k \in DOMAIN sent[c] :
                sent[c][k].msg.type = "download-ready"}} : c \in Conns}

AbsentName == <<"n","o","f","i","l","e",".","m","p","4">>

\* the names a retriever asks for: the names it was given, or one it made up
RequestNames == {Basename(u) : u \in ReadyUrls} \cup {AbsentName}

\* the route parameter of GET /download/..%2Fserver.js, percent-decoded
TraversalName == <<".",".","/","s","e","r","v","e","r",".","j","s">>

\* the names any client may ask for: req.params.filename is whatever one
\* path segment the client sent, percent-decoded
AnyNames == RequestNames \cup {TraversalName}

\* the request arrives: fs.access(filePath) starts
Get(r, filename) ==
    /\ Serving
    /\ http[r].pc = "idle"
    /\ \A k \in Reqs : k < r => http[k].pc # "idle"
    /\ quota.reqs > 0
    /\ quota' = [quota EXCEPT !.reqs = @ - 1]
    /\ http' = [http EXCEPT ![r] = [pc |-> "access", filename |-> filename,
                                    status |-> 0]]
    /\ UNCHANGED <<readyState, sent, pc, ctx, proc, spawned, fs, cls>>

FilePath(r) == PathJoin(DOWNLOADS_DIR, http[r].filename)

\* fs.access returns: res.download(filePath, ...) is called, or 404
AccessDone(r) ==
    /\ http[r].pc = "access"
    /\ http' = IF Exists(fs, FilePath(r))
               THEN [http EXCEPT ![r].pc = "send"]
               ELSE [http EXCEPT ![r].pc = "done", ![r].status = 404]
    /\ UNCHANGED <<readyState, sent, pc, ctx, proc, spawned, fs, quota, cls>>

\* res.download opens the file: the headers go out and the bytes start, or
\* the callback gets the error before any header was sent (500)
SendOpen(r) ==
    /\ http[r].pc = "send"
    /\ http' = IF Exists(fs, FilePath(r))
               THEN [http EXCEPT ![r].pc = "streaming", ![r].status = 200]
               ELSE [http EXCEPT ![r].pc = "done", ![r].status = 500]
    /\ UNCHANGED <<readyState, sent, pc, ctx, proc, spawned, fs, quota, cls>>

\* the callback of res.download while streaming has begun: with err the
\* headers were sent and nothing more is done, without err fs.unlink starts
TransferDone(r, err) ==
    /\ http[r].pc = "streaming"
    /\ http' = [http EXCEPT ![r].pc = IF err THEN "done" ELSE "unlink"]
    /\ UNCHANGED <<readyState, sent, pc, ctx, proc, spawned, fs, quota, cls>>

\* fs.unlink(filePath) returns; a cleanup error is only logged
CleanupDone(r) ==
    /\ http[r].pc = "unlink"
    /\ fs' = Unlinked(fs, FilePath(r))
    /\ http' = [http EXCEPT ![r].pc = "done"]
    /\ UNCHANGED <<readyState, sent, pc, ctx, proc, spawned, quota, cls>>

(***************************************************************************)
(* The specification.                                                      *)
(***************************************************************************)
\* the connections, the job handler and the tools it runs
JobNext ==
    \/ \E c \in Conns : Connect(c)
    \/ \E c \in Conns : Disconnect(c)
    \/ \E j \in Jobs, c \in Conns, payload \in Payloads :
           DownloadRequest(j, c, payload)
    \/ \E j \in Jobs : EnsureDirDone(j)
    \/ \E j \in Jobs : SpawnError(j)
    \/ \E j \in Jobs, chunk \in StdoutChunks : YtDlpStdout(j, chunk)
    \/ \E j \in Jobs, chunk \in StderrChunks : YtDlpStderr(j, chunk)
    \/ \E j \in Jobs, chunk \in FfmpegStderrChunks : FfmpegStderr(j, chunk)
    \/ \E j \in Jobs, code \in ExitCodes : TitleClose(j, code)
    \/ \E j \in {k \in Jobs : pc[k] = "download"}, code \in ExitCodes :
           \E files \in Leavings(DownloadTargets(ctx[j].prefix, ctx[j].format)) :
               DownloadClose(j, code, files)
    \/ \E j \in Jobs : ReaddirDone(j)
    \/ \E j \in {k \in Jobs : pc[k] = "convert"}, code \in ExitCodes :
           \E files \in Leavings({ConvertedPath(ctx[j].prefix, ctx[j].format)}) :
               FfmpegClose(j, code, files)
    \/ \E j \in Jobs : UnlinkDone(j)
    \/ \E j \in Jobs : StatDone(j)

\* the retrieval route
RetrievalNext ==
    \/ \E r \in {k \in Reqs : http[k].pc = "idle"} :
           \E filename \in RequestNames : Get(r, filename)
    \/ \E r \in Reqs : AccessDone(r)
    \/ \E r \in Reqs : SendOpen(r)
    \/ \E r \in Reqs, err \in BOOLEAN : TransferDone(r, err)
    \/ \E r \in Reqs : CleanupDone(r)

\* the retrieval route, asked for any name, while peers come and go
AnyRetrievalNext ==
    \/ \E c \in Conns : Connect(c)
    \/ \E c \in Conns : Disconnect(c)
    \/ \E r \in {k \in Reqs : http[k].pc = "idle"} :
           \E filename \in AnyNames : Get(r, filename)
    \/ \E r \in Reqs : AccessDone(r)
    \/ \E r \in Reqs : SendOpen(r)
    \/ \E r \in Reqs, err \in BOOLEAN : TransferDone(r, err)
    \/ \E r \in Reqs : CleanupDone(r)

Next == JobNext \/ RetrievalNext

\* the server: jobs and retrievals
Spec == Init /\ [][Next]_vars

\* the jobs alone, no retrieval request arriving
SpecJob == Init /\ [][JobNext]_vars

\* the requests that start an audio job
AudioPayloads == {p \in Payloads : p.format = MP3}

\* two download-requests and one other message, the tools writing nothing
InitConn ==
    /\ InitState
    /\ quota = [jobs |-> 2, chunks |-> 0, reqs |-> 0, msgs |-> 1]
    /\ text = <<>>
    /\ category = <<>>

\* the messages of one connection and the audio jobs they start
ConnNext ==
    \/ \E c \in Conns : Connect(c)
    \/ \E c \in Conns : Disconnect(c)
    \/ \E j \in Jobs, c \in Conns, payload \in AudioPayloads :
           DownloadRequest(j, c, payload)
    \/ \E c \in Conns, message \in OtherMessages : Message(c, message)
    \/ \E j \in Jobs : EnsureDirDone(j)
    \/ \E j \in Jobs : SpawnError(j)
    \/ \E j \in Jobs, code \in ExitCodes : TitleClose(j, code)
    \/ \E j \in {k \in Jobs : pc[k] = "download"}, code \in ExitCodes :
           \E files \in Leavings(DownloadTargets(ctx[j].prefix, ctx[j].format)) :
               DownloadClose(j, code, files)
    \/ \E j \in Jobs : StatDone(j)

\* one connection sending several messages
SpecConn == InitConn /\ [][ConnNext]_vars

\* the retrieval route with no job requested
SpecRetrieval == Init /\ [][AnyRetrievalNext]_vars

(***************************************************************************)
(* The classification of the catch block on its own: the diagnostic text   *)
(* is drawn from the texts made of at most MaxPieces pieces.               *)
(***************************************************************************)
Pieces ==
    {<<"f","o","r","m","a","t"," ","i","s"," ","n","o","t"," ","a","v","a","i","l","a","b","l","e">>, <<"p","r","i","v","a","t","e">>, <<"l","o","g","i","n">>, <<"g","e","o">>,
     <<"c","o","p","y","r","i","g","h","t">>, <<"P","r","i","v","a","t","e">>, <<"E","R","R","O","R",":"," ">>}

RECURSIVE Texts(_)
Texts(n) ==
    IF n = 0 THEN {<<>>}
    ELSE Texts(n - 1) \cup {s \o p : s \in Texts(n - 1), p \in Pieces}

InitClassify ==
    /\ InitServer
    /\ text \in Texts(MaxPieces)
    /\ category = <<>>

\* the catch block runs on an error whose message is text
Classify ==
    /\ category = <<>>
    /\ category' = ClassifyError(text)
    /\ UNCHANGED <<readyState, sent, pc, ctx, proc, spawned, fs, http, quota, text>>

SpecClassify == InitClassify /\ [][Classify]_vars

(***************************************************************************)
(* The claims.                                                             *)
(***************************************************************************)
\* the messages of job j the peer was sent, in order
JobMsgs(j) ==
    IF ctx[j].conn = 0 THEN <<>>
    ELSE LET es == SelectSeq(sent[ctx[j].conn], LAMBDA e : e.job = j)
         IN  [i \in 1..Len(es) |-> es[i].msg]

IsTerminal(m) == m.type \in {"error", "download-ready"}
Ended(j) == pc[j] \in {"ready", "failed"}
StaysOpen(j) == ctx[j].conn # 0 /\ readyState[ctx[j].conn] = "OPEN"
Count(seq, x) == Cardinality({i \in DOMAIN seq : seq[i] = x})

\* the staging entries whose name starts with the working-name prefix of job j
JobFiles(j) ==
    IF ctx[j].prefix = <<>> THEN {}
    ELSE {f \in fs : /\ InsideDir(f.path, DOWNLOADS_DIR)
                     /\ StartsWith(Basename(f.path), ctx[j].prefix)}

\* C1: on a connection that stays open, the messages of a job are status and
\* progress messages followed by exactly one terminal message (error or
\* download-ready): no message of the job follows a terminal message, and a
\* job that has ended has sent its terminal message last.
C1_OneTerminalMessageLast ==
    \A j \in Jobs :
        StaysOpen(j) =>
            LET ms == JobMsgs(j)
            IN  /\ \A i \in 1..Len(ms) : IsTerminal(ms[i]) => i = Len(ms)
                /\ Ended(j) => Len(ms) > 0 /\ IsTerminal(ms[Len(ms)])

\* C2: every error message sent to a peer carries one of the fixed
\* user-facing messages; raw stderr text is never sent.
C2_ErrorMessagesAreFixed ==
    \A c \in Conns : \A i \in DOMAIN sent[c] :
        sent[c][i].msg.type = "error" => sent[c][i].msg.message \in FixedMessages

\* C3: once a job has failed, no file whose name starts with its working-name
\* prefix remains in the staging directory.
C3_FailedJobLeavesNoFiles ==
    \A j \in Jobs : pc[j] = "failed" => JobFiles(j) = {}

\* C4: a job whose extraction tool exited non-zero with stderr
\* "ERROR: Private video" ends with the error message carrying the
\* access-restricted text, and sends no download-ready.
C4_PrivateVideoIsAccessRestricted ==
    \A j \in Jobs :
        (pc[j] = "failed" /\ ctx[j].error = ErrPrivateVideo /\ StaysOpen(j)) =>
            LET ms == JobMsgs(j)
            IN  /\ ms[Len(ms)] = ErrorMsg(AccessRestrictedMessage)
                /\ \A i \in 1..Len(ms) : ms[i].type # "download-ready"

\* C5: the message of a failed job is decided by the diagnostic text alone,
\* first match winning in the order: "format is not available" ->
\* not-available; "private" or "login" -> access-restricted; "geo" ->
\* region-restricted; "copyright" -> rights-restricted; else generic retry.
C5_ClassificationOrder ==
    category # <<>> =>
        LET fna == Includes(text, <<"f","o","r","m","a","t"," ","i","s"," ","n","o","t"," ","a","v","a","i","l","a","b","l","e">>)
            acc == Includes(text, <<"p","r","i","v","a","t","e">>) \/ Includes(text, <<"l","o","g","i","n">>)
            geo == Includes(text, <<"g","e","o">>)
            cpr == Includes(text, <<"c","o","p","y","r","i","g","h","t">>)
        IN  /\ fna => category = NotAvailableMessage
            /\ (~fna /\ acc) => category = AccessRestrictedMessage
            /\ (~fna /\ ~acc /\ geo) => category = RegionRestrictedMessage
            /\ (~fna /\ ~acc /\ ~geo /\ cpr) => category = RightsRestrictedMessage
            /\ (~fna /\ ~acc /\ ~geo /\ ~cpr) => category = GenericRetryMessage

\* a text holding both "format is not available" and "private" was classified
C5_Witness ==
    /\ category = NotAvailableMessage
    /\ Includes(text, <<"f","o","r","m","a","t"," ","i","s"," ","n","o","t"," ","a","v","a","i","l","a","b","l","e">>)
    /\ Includes(text, <<"p","r","i","v","a","t","e">>)

\* C6: a job with format mp3 or m4a never enters Converting: the transcoding
\* tool is never run for it and no "Converting file..." status is sent.
C6_AudioNeverConverts ==
    \A j \in Jobs :
        ctx[j].format \in {MP3, M4A} =>
            /\ pc[j] \notin {"convert", "unlink"}
            /\ Count(spawned[j], "ffmpeg") = 0
            /\ \A i \in DOMAIN JobMsgs(j) :
                   JobMsgs(j)[i].type = "status" =>
                       JobMsgs(j)[i].message # ConvertingText

\* an m4a job is ready although the extraction tool also left an .mkv file
C6_Witness ==
    \E j \in Jobs :
        /\ ctx[j].format = M4A
        /\ pc[j] = "ready"
        /\ Exists(fs, PathJoin(DOWNLOADS_DIR, ctx[j].prefix \o <<".","m","k","v">>))
        /\ Len(JobMsgs(j)) > 0

\* C7: for a video job whose download succeeded and whose file was located:
\* if the located name ends with ".<format>" the transcoding tool is not run;
\* otherwise it is run exactly once, and once the Converting phase is over
\* the pre-conversion file is no longer in staging.
C7_ConvertOnceAndSourceGone ==
    \A j \in Jobs :
        (ctx[j].format \in {MP4, WEBM} /\ ctx[j].downloadedFile # <<>>) =>
            IF EndsWith(ctx[j].downloadedFile, <<".">> \o ctx[j].format)
            THEN Count(spawned[j], "ffmpeg") = 0
            ELSE /\ Count(spawned[j], "ffmpeg") = 1
                 /\ pc[j] \notin {"convert", "unlink"} =>
                        ~Exists(fs, PathJoin(DOWNLOADS_DIR, ctx[j].downloadedFile))

\* the entries a step adds to what connection c was sent
NewlySent(c) ==
    {sent'[c][i] : i \in (Len(sent[c]) + 1)..Len(sent'[c])}

\* C8: download-ready is sent only when the final file exists in staging
\* with size > 0, and its size field is the size of that file; a final file
\* of 0 bytes makes the job fail with an error message, not download-ready.
C8_ReadyOnlyForNonEmptyFile ==
    [][/\ \A c \in Conns : \A e \in NewlySent(c) :
              e.msg.type = "download-ready" =>
                  /\ Exists(fs', ctx'[e.job].finalPath)
                  /\ SizeOf(fs', ctx'[e.job].finalPath) > 0
                  /\ e.msg.size = SizeOf(fs', ctx'[e.job].finalPath)
       /\ \A j \in Jobs :
              (/\ pc[j] = "stat"
               /\ pc'[j] # "stat"
               /\ Exists(fs, ctx[j].finalPath)
               /\ SizeOf(fs, ctx[j].finalPath) = 0) =>
                  /\ pc'[j] = "failed"
                  /\ readyState[ctx[j].conn] = "OPEN" =>
                         {e.msg.type : e \in NewlySent(ctx[j].conn)} = {"error"}
      ]_vars

\* a job is ready and its download-ready message was sent
C8_Witness ==
    \E j \in Jobs :
        /\ pc[j] = "ready"
        /\ Len(JobMsgs(j)) > 0
        /\ JobMsgs(j)[Len(JobMsgs(j))].type = "download-ready"
        /\ JobMsgs(j)[Len(JobMsgs(j))].size = SizeOf(fs, ctx[j].finalPath)

\* C9: a retrieval of a name absent from staging gets 404; a retrieval of a
\* present name ends, whether the transfer succeeded or failed, with the file
\* absent from staging.
C9_RetrievedFileIsGone ==
    \A r \in Reqs :
        http[r].pc = "done" =>
            \/ http[r].status = 404
            \/ ~Exists(fs, FilePath(r))

\* C10: of the retrieval requests for one filename at most one starts
\* streaming the file, and every other one gets 404.
C10_AtMostOneRetrieval ==
    \A r1, r2 \in Reqs :
        (/\ r1 # r2
         /\ http[r1].filename = http[r2].filename
         /\ http[r1].status = 200) =>
            http[r2].status \in {0, 404}

\* the jobs of connection c that have started and not yet ended
Running(c) ==
    {j \in Jobs : /\ ctx[j].conn = c
                  /\ pc[j] \notin {"idle", "ready", "failed", "crashed"}}

\* C11: at every moment each connection has at most one job that has started
\* and not yet emitted its terminal event: a second download-request on a
\* connection whose first job is still running starts no second running job.
C11_OneRunningJobPerConnection ==
    \A c \in Conns : Cardinality(Running(c)) <= 1

\* C12: when the peer has disconnected while a job was in flight, then once
\* the job has run to completion or failure no file with the job's
\* working-name prefix remains in the staging directory.
C12_NoFilesAfterDisconnectedJob ==
    [][\A j \in Jobs :
          (/\ ~Ended(j)
           /\ Ended(j)'
           /\ readyState[ctx[j].conn] = "CLOSED") => JobFiles(j)' = {}
      ]_vars

\* what s2 has after its first Len(s1) elements
Rest(s1, s2) == SubSeq(s2, Len(s1) + 1, Len(s2))

\* the messages a step adds to what connection c was sent, in order
Added(c) == [i \in 1..(Len(sent'[c]) - Len(sent[c])) |->
                sent'[c][Len(sent[c]) + i]]

\* C13: for a job on an open connection the messages sent are the events
\* produced, in the order produced, none dropped, merged or reordered: what
\* was sent is never changed, only extended; a stdout chunk fed to runYtDlp
\* that holds a percentage marker adds exactly one progress message with its
\* percentage, a stderr chunk that holds "ERROR:" adds exactly one error
\* message with the chunk as text, and a chunk matching no pattern adds
\* nothing.
C13_EventsForwardedInOrder ==
    [][/\ \A c \in Conns :
              /\ Len(sent'[c]) >= Len(sent[c])
              /\ SubSeq(sent'[c], 1, Len(sent[c])) = sent[c]
       /\ \A j \in Jobs :
              (/\ StaysOpen(j)
               /\ proc[j].cmd = "yt-dlp"
               /\ proc'[j].cmd = "yt-dlp"
               /\ pc'[j] = pc[j]
               /\ proc'[j] # proc[j]) =>
                  LET out == Rest(proc[j].output, proc'[j].output)
                      err == Rest(proc[j].error, proc'[j].error)
                      new == Added(ctx[j].conn)
                  IN  /\ out = <<"[","d","o","w","n","l","o","a","d","]"," "," ","4","2",".","5","%"," ","o","f"," ","9","M","i","B">> =>
                             new = <<[job |-> j, msg |-> ProgressMsg(425)]>>
                      /\ out = <<"M","y",":"," ","V","i","d","e","o","\n">> => new = <<>>
                      /\ err = <<"E","R","R","O","R",":"," ","P","r","i","v","a","t","e"," ","v","i","d","e","o">> =>
                             new = <<[job |-> j, msg |-> ErrorMsg(err)]>>
                      /\ err = <<"v","i","d","e","o"," ","i","s"," ","p","r","i","v","a","t","e","\n">> => new = <<>>
                      /\ \/ out \in StdoutChunks /\ err = <<>>
                         \/ err \in StderrChunks /\ out = <<>>
      ]_vars

\* a job on an open connection whose tool wrote the same percentage chunk
\* twice, and whose last two messages are the two progress messages
C13_Witness ==
    \E j \in Jobs :
        /\ StaysOpen(j)
        /\ proc[j].output = PercentChunk \o PercentChunk
        /\ Len(JobMsgs(j)) >= 2
        /\ JobMsgs(j)[Len(JobMsgs(j))] = ProgressMsg(425)
        /\ JobMsgs(j)[Len(JobMsgs(j)) - 1] = ProgressMsg(425)

\* C14: no failure inside a job crashes the server process or leaves the job
\* without a terminal event: the process keeps serving whatever fails,
\* a tool that cannot be started included, and a job that has failed on an
\* open connection has sent, last, the error message of its catch block.
C14_FailuresAreCaught ==
    /\ Serving
    /\ \A j \in Jobs :
           (pc[j] = "failed" /\ StaysOpen(j)) =>
               /\ Len(JobMsgs(j)) > 0
               /\ JobMsgs(j)[Len(JobMsgs(j))].type = "error"
               /\ JobMsgs(j)[Len(JobMsgs(j))].message \in FixedMessages

\* what job j is suspended at can still return: a tool that is running will
\* close, a file-system call completes
CanResume(j) ==
    \/ pc[j] \in {"title", "download"} /\ proc[j].cmd = "yt-dlp"
    \/ pc[j] = "convert" /\ proc[j].cmd = "ffmpeg"
    \/ pc[j] \in {"ensureDir", "readdir", "unlink", "stat"}

\* C20: every accepted download-request reaches Ready or Failed provided
\* every external process that was started closes, the case where the tool
\* cannot be started included: a job that has been accepted and has not
\* reached Ready or Failed is suspended at something that can still return,
\* so no phase waits forever.
C20_NoJobWaitsForever ==
    \A j \in Jobs : (pc[j] # "idle" /\ ~Ended(j)) => CanResume(j)

\* C15: a runner invocation succeeds if and only if the process exits with
\* status 0, and then the result of runYtDlp is the concatenation of the
\* stdout chunks in arrival order; on another exit it fails with the
\* concatenation of the stderr chunks, or with the fixed generic message when
\* nothing was written to stderr; so the job never goes from Fetching-Title,
\* Downloading or Converting on to the next phase after a non-zero exit.
C15_RunnerResult ==
    [][\A j \in Jobs :
          \* the streams are accumulated chunk by chunk, from nothing
          /\ (proc'[j].cmd # "none" /\ proc'[j] # proc[j]) =>
                 IF pc'[j] # pc[j]
                 THEN proc'[j].output = <<>> /\ proc'[j].error = <<>>
                 ELSE \/ /\ Rest(proc[j].output, proc'[j].output) \in StdoutChunks
                         /\ proc'[j].output =
                                proc[j].output
                                    \o Rest(proc[j].output, proc'[j].output)
                         /\ proc'[j].error = proc[j].error
                      \/ /\ Rest(proc[j].error, proc'[j].error)
                                \in StderrChunks \cup FfmpegStderrChunks
                         /\ proc'[j].error =
                                proc[j].error \o Rest(proc[j].error, proc'[j].error)
                         /\ proc'[j].output = proc[j].output
          \* the close of each run
          /\ \A code \in ExitCodes :
                 LET stderr == proc[j].error
                     failsWith(generic) ==
                         /\ pc'[j] = "failed"
                         /\ ctx'[j].error = IF stderr = <<>> THEN generic ELSE stderr
                 IN  /\ TitleClose(j, code) =>
                            IF code = 0
                            THEN /\ ctx'[j].error \in {<<>>, UnsupportedText \o ctx[j].format}
                                 /\ StaysOpen(j) =>
                                        Added(ctx[j].conn)[1].msg.message =
                                            ProcessingText \o Trim(proc[j].output)
                            ELSE failsWith(<<"V","i","d","e","o"," ","p","r","o","c","e","s","s","i","n","g"," ","c","o","m","m","a","n","d"," ","f","a","i","l","e","d">>)
                     /\ (/\ pc[j] = "download"
                         /\ \E files \in Leavings(DownloadTargets(ctx[j].prefix,
                                                                  ctx[j].format)) :
                                DownloadClose(j, code, files)) =>
                            IF code = 0
                            THEN pc'[j] \in {"stat", "readdir"}
                            ELSE failsWith(<<"V","i","d","e","o"," ","p","r","o","c","e","s","s","i","n","g"," ","c","o","m","m","a","n","d"," ","f","a","i","l","e","d">>)
                     /\ (/\ pc[j] = "convert"
                         /\ \E files \in Leavings({ConvertedPath(ctx[j].prefix,
                                                                 ctx[j].format)}) :
                                FfmpegClose(j, code, files)) =>
                            IF code = 0
                            THEN pc'[j] = "unlink"
                            ELSE failsWith(<<"V","i","d","e","o"," ","c","o","n","v","e","r","s","i","o","n"," ","f","a","i","l","e","d">>)
      ]_vars

\* a job has failed with the two stderr chunks of its tool, in arrival order,
\* as its diagnostic text
C15_Witness ==
    \E j \in Jobs :
        /\ pc[j] = "failed"
        /\ ctx[j].error = PlainPrivateChunk \o ErrPrivateVideo

\* the status messages among the messages of job j, in order
StatusMsgs(j) == SelectSeq(JobMsgs(j), LAMBDA m : m.type = "status")

\* C16: a successful request with format mp3 and quality auto is sent, in
\* this order: status 5, status 10 whose message contains the title, status
\* 20 "Downloading audio...", zero or more progress messages, then
\* download-ready with a filename ending in ".mp3", a size above 0 and a url
\* starting with "/download/"; and the status percents of every job are
\* strictly increasing, 80 coming only for a video job.
C16_AudioScenarioOrder ==
    \A j \in Jobs :
        /\ (/\ pc[j] = "ready"
            /\ ctx[j].format = MP3
            /\ ctx[j].quality = Auto
            /\ StaysOpen(j)) =>
               LET ms == JobMsgs(j)
                   n == Len(ms)
               IN  /\ n >= 4
                   /\ ms[1].type = "status" /\ ms[1].percent = Pct(5)
                   /\ ms[2].type = "status" /\ ms[2].percent = Pct(10)
                   /\ StartsWith(ms[2].message, <<"P","r","o","c","e","s","s","i","n","g",":"," ">>)
                   /\ LET title == Rest(<<"P","r","o","c","e","s","s","i","n","g",":"," ">>, ms[2].message)
                          clean == Trim(RemoveChars(title, HostileChars))
                      IN  ctx[j].finalFilename =
                              (IF clean = <<>> THEN <<"v","i","d","e","o">> ELSE clean) \o <<".","m","p","3">>
                   /\ ms[3] = StatusMsg(<<"D","o","w","n","l","o","a","d","i","n","g"," ","a","u","d","i","o",".",".",".">>, Pct(20))
                   /\ \A i \in 4..(n - 1) : ms[i].type = "progress"
                   /\ ms[n].type = "download-ready"
                   /\ EndsWith(ms[n].filename, <<".","m","p","3">>)
                   /\ ms[n].size > 0
                   /\ StartsWith(ms[n].url, <<"/","d","o","w","n","l","o","a","d","/">>)
        /\ LET ss == StatusMsgs(j)
           IN  /\ \A i \in 1..(Len(ss) - 1) : ss[i].percent < ss[i + 1].percent
               /\ \A i \in 1..Len(ss) :
                      /\ ss[i].percent \in {Pct(5), Pct(10), Pct(20), Pct(80)}
                      /\ ss[i].percent = Pct(80) => ctx[j].format \in VideoFormats

\* the step is the handling of message on connection c, and it starts no
\* subprocess, creates no file and leaves every job as it was
Harmless(c, message) ==
    Message(c, message) =>
        UNCHANGED <<readyState, pc, ctx, proc, spawned, fs, http>>

InternalError ==
    <<[job |-> 0, msg |-> [type |-> "error",
                           message |-> <<"A","n"," ","i","n","t","e","r","n","a","l"," ","s","e","r","v","e","r"," ","e","r","r","o","r"," ","o","c","c","u","r","r","e","d",".">>]]>>

Staged(p) == InsideDir(p, DOWNLOADS_DIR)

\* C18: every path the server stats, passes to the transcoding tool, deletes,
\* exposes in the url of download-ready, or serves and deletes through the
\* retrieval route lies strictly inside the staging directory, whatever the
\* url, title, format and requested filename.
C18_PathsStayInStaging ==
    /\ \A j \in Jobs :
           /\ ctx[j].finalPath # <<>> => Staged(ctx[j].finalPath)
           /\ proc[j].cmd = "ffmpeg" =>
                  Staged(proc[j].args[2]) /\ Staged(proc[j].args[5])
    /\ \A u \in ReadyUrls :
           /\ StartsWith(u, <<"/","d","o","w","n","l","o","a","d","/">>)
           /\ Staged(DOWNLOADS_DIR \o <<"/">> \o Rest(<<"/","d","o","w","n","l","o","a","d","/">>, u))
    /\ \A r \in Reqs :
           http[r].pc \in {"send", "streaming", "unlink"} \/ http[r].status = 200
               => Staged(PathJoin(DOWNLOADS_DIR, http[r].filename))

\* C19: after the download run of a video job, the file taken as the job's
\* artifact is the single staging entry whose name starts with the job's
\* working-name prefix: with no such entry the job fails, with an error
\* message on an open connection, and with more than one the job does not
\* take one of them as its artifact.
C19_ArtifactIsTheSingleMatch ==
    [][\A j \in Jobs :
          (pc[j] = "readdir" /\ pc'[j] \in {"failed", "convert", "stat"}) =>
              LET matching == {f \in Readdir(fs) : StartsWith(f, ctx[j].prefix)}
              IN  /\ matching = {} =>
                         /\ pc'[j] = "failed"
                         /\ StaysOpen(j) =>
                                {e.msg.type : e \in NewlySent(ctx[j].conn)} = {"error"}
                  /\ Cardinality(matching) = 1 =>
                         {ctx'[j].downloadedFile} = matching
                  /\ Cardinality(matching) > 1 =>
                         ctx'[j].downloadedFile = <<>>
      ]_vars

====
